---- MODULE Spec2Model ----
(***************************************************************************)
(* A model of src/drivers/rigol.py: the Rigol driver class, which wraps    *)
(* SCPI command strings sent to an oscilloscope through a VISA handle.     *)
(*                                                                         *)
(* The driver is straight-line code: every method is a fixed sequence of   *)
(* calls on the handle (write, query, close).  The VISA library and the    *)
(* instrument are external: any call on them may return or raise, and a    *)
(* query that returns may return any string.  Each method is one action;   *)
(* the call that raises (if any) and the instrument's reply are the        *)
(* action's inputs.                                                        *)
(*                                                                         *)
(* Strings the driver builds are TLA+ strings, built by concatenation as   *)
(* the f-strings build them.  Strings the instrument sends back are        *)
(* sequences of one-character strings, so that strip() and float() can be  *)
(* computed character by character.                                        *)
(***************************************************************************)
EXTENDS Integers, Sequences, FiniteSets, TLC

VARIABLES
    phase,        \* "new": no object yet; "ready": __init__ returned; "failed": __init__ raised
    rm,           \* self.rm
    osci,         \* self.osci
    attrs,        \* the attributes assigned on the handle so far (name -> value)
    sessionOpen,  \* the library's side: the handle's session is open
    method,       \* the method invoked last
    args,         \* the arguments it was invoked with
    io,           \* the calls the last invocation made on the library, in order
    raised,       \* the exception the last invocation left to its caller, or "none"
    result,       \* the value the last invocation returned
    calls,        \* how many times in a row `method` has now been invoked, when it
                  \* is a reading method or close (0 for the other methods)
    wire          \* how many times those invocations called the library for it

vars == <<phase, rm, osci, attrs, sessionOpen, method, args, io, raised, result, calls, wire>>

----------------------------------------------------------------------------
(* Bounds *)

\* Replies of the instrument are strings of at most this many characters.
MaxReplyLen == 2
\* At most this many invocations in a row of get_time_step, of
\* get_memory_depth, of get_trigger_status or of close are followed.
MaxCalls == 3
\* Channels 1..MaxChannel are passed as channel / source.
MaxChannel == 2

----------------------------------------------------------------------------
(* Python values *)

None == "None"

\* Characters str.strip() and float() treat as white space (the ASCII ones).
Whitespace == {" ", "\t", "\n", "\r"}

\* Characters the instrument's replies are made of.
Chars == {" ", "5", "."}

RECURSIVE StringsUpTo(_)
StringsUpTo(n) ==
    IF n = 0 THEN {<< >>}
    ELSE LET shorter == StringsUpTo(n - 1)
         IN  shorter \cup {Append(s, c) : s \in {t \in shorter : Len(t) = n - 1}, c \in Chars}

Replies == StringsUpTo(MaxReplyLen)

\* A float with one decimal, as a record; the ones passed as scale, level, ...
Floats == {[neg |-> FALSE, whole |-> 0, tenths |-> 5],
           [neg |-> TRUE,  whole |-> 1, tenths |-> 0]}

\* str() of an int, of a float with one decimal, of a str: what "{x}" in an
\* f-string inserts.
StrInt(n) == ToString(n)
StrFloat(f) == (IF f.neg THEN "-" ELSE "") \o ToString(f.whole) \o "." \o ToString(f.tenths)
StrStr(s) == s

\* Values a method returns.
NoneValue == [type |-> "NoneType", str |-> << >>, num |-> 0, den |-> 1]
StrValue(s) == [type |-> "str", str |-> s, num |-> 0, den |-> 1]
FloatValue(n, d) == [type |-> "float", str |-> << >>, num |-> n, den |-> d]
ValueError == [type |-> "ValueError", str |-> << >>, num |-> 0, den |-> 1]

----------------------------------------------------------------------------
(* str.strip() *)

RECURSIVE lstrip(_)
lstrip(s) ==
    IF s = << >> THEN s
    ELSE IF Head(s) \in Whitespace THEN lstrip(Tail(s)) ELSE s

RECURSIVE rstrip(_)
rstrip(s) ==
    IF s = << >> THEN s
    ELSE IF s[Len(s)] \in Whitespace THEN rstrip(SubSeq(s, 1, Len(s) - 1)) ELSE s

\* A variant that strips the end only, as str.rstrip() does.
strip_trailing(s) == rstrip(s)

strip(s) == rstrip(lstrip(s))

----------------------------------------------------------------------------
(* float() of a str *)

Digits == <<"0", "1", "2", "3", "4", "5", "6", "7", "8", "9">>
IsDigit(c) == \E i \in 1..10 : Digits[i] = c
DigitValue(c) == (CHOOSE i \in 1..10 : Digits[i] = c) - 1

RECURSIVE Pow10(_)
Pow10(n) == IF n = 0 THEN 1 ELSE 10 * Pow10(n - 1)

RECURSIVE GCD(_, _)
GCD(a, b) == IF b = 0 THEN a ELSE GCD(b, a % b)

\* The digits of s read as one decimal integer, the point skipped.
RECURSIVE DigitsValue(_)
DigitsValue(s) ==
    IF s = << >> THEN 0
    ELSE LET init == SubSeq(s, 1, Len(s) - 1)
             last == s[Len(s)]
         IN  IF last = "." THEN DigitsValue(init)
             ELSE 10 * DigitsValue(init) + DigitValue(last)

\* float(s) for s made of digits, points and white space: white space around
\* the number is dropped; what is left must be digits with at most one point
\* and at least one digit, else ValueError.  The value is kept as a reduced
\* fraction, so that float("5.") = float("5").
float(s) ==
    LET t == strip(s)
        points == {i \in 1..Len(t) : t[i] = "."}
        digits == {i \in 1..Len(t) : IsDigit(t[i])}
        frac == IF points = {} THEN 0 ELSE Len(t) - (CHOOSE i \in points : TRUE)
        n == DigitsValue(t)
        d == Pow10(frac)
        g == GCD(n, d)
    IN  IF /\ digits # {}
           /\ Cardinality(points) <= 1
           /\ points \cup digits = 1..Len(t)
        THEN FloatValue(n \div g, d \div g)
        ELSE ValueError

----------------------------------------------------------------------------
(* The library: pyvisa's resource manager and the handle it opens *)

\* The exception class the library raises (pyvisa.errors.VisaIOError).
VisaIOError == "VisaIOError"

\* One call on the library, as the driver's code writes it.
Step(op, arg) == [op |-> op, arg |-> arg]
Write(cmd) == Step("write", cmd)
Query(cmd) == Step("query", cmd)
Close == Step("close", "")

\* A variant in which the call that raises is caught and the body goes on
\* with the calls that follow it.
Trace_continuing(steps, failAt, reply) ==
    [i \in 1..Len(steps) |->
        [op   |-> steps[i].op,
         arg  |-> steps[i].arg,
         ok   |-> i # failAt,
         data |-> IF i = failAt THEN << >>
                  ELSE IF steps[i].op = "query" THEN reply
                  ELSE IF steps[i].op = "print" THEN Append(reply, "\n")
                  ELSE << >>]]

\* The calls a straight-line body makes when its failAt-th call raises
\* (failAt = 0: none raises), each with how it ended.  Python runs the
\* statements in order; an exception that nothing catches ends the body at
\* the statement that raised it.  `reply` is what a query returns.
Trace(steps, failAt, reply) ==
    LET n == IF failAt = 0 THEN Len(steps) ELSE failAt
    IN  [i \in 1..n |->
            [op   |-> steps[i].op,
             arg  |-> steps[i].arg,
             ok   |-> i # failAt,
             data |-> IF i = failAt THEN << >>
                      ELSE IF steps[i].op = "query" THEN reply
                      ELSE IF steps[i].op = "print" THEN Append(reply, "\n")
                      ELSE << >>]]

\* The exception a body leaves to its caller: the one the library raised, as
\* raised (no method has a try statement), else the one its return
\* expression raised.
Propagated(failAt, ret) ==
    IF failAt # 0 THEN VisaIOError
    ELSE IF ret.type = "ValueError" THEN "ValueError"
    ELSE "none"

\* The number of calls of `op` with argument `arg` in a trace.
Count(trace, op, arg) ==
    Cardinality({i \in 1..Len(trace) : trace[i].op = op /\ trace[i].arg = arg})

\* The session after a trace: opened by open_resource, closed by close.
RECURSIVE SessionAfter(_, _)
SessionAfter(open, trace) ==
    IF trace = << >> THEN open
    ELSE LET e == Head(trace)
         IN  SessionAfter(IF e.ok /\ e.op = "open_resource" THEN TRUE
                          ELSE IF e.ok /\ e.op = "close" THEN FALSE
                          ELSE open,
                          Tail(trace))

----------------------------------------------------------------------------
(* Inputs *)

IpAddresses == {"192.168.1.10"}
Channels == 1..MaxChannel
Couplings == {"AC", "DC"}
TriggerModes == {"AUTO", "SINGLE"}
WaveformModes == {"NORM", "RAW"}
PointCounts == {600, 1200}

\* Which call of a body raises: none (0) or one of them.
FailPoints(steps) == 0..Len(steps)

\* What the instrument replies; there is a reply only when no call raises.
RepliesWhen(failAt) == IF failAt = 0 THEN Replies ELSE {<< >>}

----------------------------------------------------------------------------
(* The driver: class Rigol.  A method is invoked on a constructed object, *)
(* so each method's action is enabled only once __init__ has returned.    *)

\* The methods whose invocations in a row are counted, each with the call it
\* makes on the library.
Counted ==
    [get_time_step      |-> Query(":WAV:XINC?"),
     get_memory_depth   |-> Query(":ACQuire:MDEPth?"),
     get_trigger_status |-> Query(":TRIG:STAT?"),
     close              |-> Close]

\* What __init__ assigns on the handle.
HandleSettings ==
    [timeout           |-> 2000,
     read_termination  |-> "\n",
     write_termination |-> "\n"]

\* bool(x) of an attribute that holds None or a library object.
Truthy(x) == x # None

Init ==
    /\ phase = "new"
    /\ rm = None
    /\ osci = None
    /\ attrs = << >>
    /\ sessionOpen = FALSE
    /\ method = ""
    /\ args = << >>
    /\ io = << >>
    /\ raised = "none"
    /\ result = NoneValue
    /\ calls = 0
    /\ wire = 0

\* A variant that identifies the instrument before it configures the handle.
init_body_identify_first(ip_address) ==
    << Step("ResourceManager", "@py"),
       Step("open_resource", "TCPIP::" \o StrStr(ip_address) \o "::INSTR"),
       Query("*IDN?"),
       Step("setattr", "timeout"),
       Step("setattr", "read_termination"),
       Step("setattr", "write_termination"),
       Step("print", "") >>

\* The statements of __init__, in order.
init_body(ip_address) ==
    << Step("ResourceManager", "@py"),
       Step("open_resource", "TCPIP::" \o StrStr(ip_address) \o "::INSTR"),
       Step("setattr", "timeout"),
       Step("setattr", "read_termination"),
       Step("setattr", "write_termination"),
       Query("*IDN?"),
       Step("print", "") >>

\* The calls of __init__ that the library serves, and so may raise: all but
\* the print.
init_fail_points(ip_address) == 0..(Len(init_body(ip_address)) - 1)

\* A variant that closes the handle it opened when a later statement raises.
__init__closing(ip_address, failAt, reply) ==
    LET steps == init_body(ip_address)
        made == Trace(steps, failAt, reply)
        opened == Len(made) >= 2 /\ made[2].ok
        trace == IF failAt # 0 /\ opened
                 THEN Append(made, [op |-> "close", arg |-> "", ok |-> TRUE, data |-> << >>])
                 ELSE made
        done(i) == i <= Len(trace) /\ trace[i].ok
        assigned == {trace[i].arg : i \in {j \in 1..Len(trace) :
                                             trace[j].op = "setattr" /\ trace[j].ok}}
    IN  /\ phase = "new"
        /\ io' = trace
        /\ rm' = IF done(1) THEN "ResourceManager('@py')" ELSE None
        /\ osci' = IF done(2) THEN steps[2].arg ELSE None
        /\ attrs' = [n \in assigned |-> HandleSettings[n]]
        /\ sessionOpen' = SessionAfter(sessionOpen, trace)
        /\ phase' = IF failAt = 0 THEN "ready" ELSE "failed"
        /\ raised' = Propagated(failAt, NoneValue)
        /\ result' = NoneValue
        /\ method' = "__init__"
        /\ args' = [ip_address |-> ip_address]
        /\ UNCHANGED <<calls, wire>>

\* Rigol(ip_address).
__init__(ip_address, failAt, reply) ==
    LET steps == init_body(ip_address)
        trace == Trace(steps, failAt, reply)
        done(i) == i <= Len(trace) /\ trace[i].ok
        assigned == {trace[i].arg : i \in {j \in 1..Len(trace) :
                                             trace[j].op = "setattr" /\ trace[j].ok}}
    IN  /\ phase = "new"
        /\ io' = trace
        /\ rm' = IF done(1) THEN "ResourceManager('@py')" ELSE None
        /\ osci' = IF done(2) THEN steps[2].arg ELSE None
        /\ attrs' = [n \in assigned |-> HandleSettings[n]]
        /\ sessionOpen' = SessionAfter(sessionOpen, trace)
        /\ phase' = IF failAt = 0 THEN "ready" ELSE "failed"
        /\ raised' = Propagated(failAt, NoneValue)
        /\ result' = NoneValue
        /\ method' = "__init__"
        /\ args' = [ip_address |-> ip_address]
        /\ UNCHANGED <<calls, wire>>

\* What invoking a method with the arguments `given` does, when its body
\* makes the calls `steps` and then returns `ret` (ValueError: the return
\* expression raises it).
Invoke(name, given, steps, failAt, reply, ret) ==
    LET trace == Trace(steps, failAt, reply)
        counted == name \in DOMAIN Counted
        again == name = method
    IN  /\ counted /\ again => calls < MaxCalls
        /\ io' = trace
        /\ raised' = Propagated(failAt, ret)
        /\ result' = IF raised' = "none" THEN ret ELSE NoneValue
        /\ method' = name
        /\ args' = given
        /\ sessionOpen' = SessionAfter(sessionOpen, trace)
        /\ calls' = IF ~counted THEN 0 ELSE IF again THEN calls + 1 ELSE 1
        /\ wire' = IF ~counted THEN 0
                   ELSE (IF again THEN wire ELSE 0)
                        + Count(trace, Counted[name].op, Counted[name].arg)
        /\ UNCHANGED <<phase, rm, osci, attrs>>

\* A variant that sets the coupling before the scale.
configure_channel_body_coupling_first(channel, scale, coupling) ==
    << Write(":CHANnel" \o StrInt(channel) \o ":DISPlay ON"),
       Write(":CHANnel" \o StrInt(channel) \o ":COUPling " \o StrStr(coupling)),
       Write(":CHANnel" \o StrInt(channel) \o ":SCALe " \o StrFloat(scale)) >>

configure_channel_body(channel, scale, coupling) ==
    << Write(":CHANnel" \o StrInt(channel) \o ":DISPlay ON"),
       Write(":CHANnel" \o StrInt(channel) \o ":SCALe " \o StrFloat(scale)),
       Write(":CHANnel" \o StrInt(channel) \o ":COUPling " \o StrStr(coupling)) >>

configure_channel(channel, scale, coupling, failAt) ==
    /\ phase = "ready"
    /\ Invoke("configure_channel", [channel |-> channel, scale |-> scale, coupling |-> coupling],
              configure_channel_body(channel, scale, coupling),
           failAt, << >>, NoneValue)

\* A variant that sets the level before the source.
setup_trigger_body_level_first(source, level, mode) ==
    << Write(":TRIG:EDGE:LEV " \o StrFloat(level)),
       Write(":TRIG:EDGE:SOURce CHAN" \o StrInt(source)),
       Write(":TRIG:SWE " \o StrStr(mode)) >>

setup_trigger_body(source, level, mode) ==
    << Write(":TRIG:EDGE:SOURce CHAN" \o StrInt(source)),
       Write(":TRIG:EDGE:LEV " \o StrFloat(level)),
       Write(":TRIG:SWE " \o StrStr(mode)) >>

setup_trigger(source, level, mode, failAt) ==
    /\ phase = "ready"
    /\ Invoke("setup_trigger", [source |-> source, level |-> level, mode |-> mode],
              setup_trigger_body(source, level, mode),
           failAt, << >>, NoneValue)

get_time_step_body == << Query(":WAV:XINC?") >>

get_time_step(failAt, reply) ==
    /\ phase = "ready"
    /\ Invoke("get_time_step", << >>,
              get_time_step_body, failAt, reply, float(reply))

\* A variant that reads the depth back after setting it.
set_memory_depth_body_readback(memory_depth) ==
    << Write(":ACQuire:MDEPth " \o StrInt(memory_depth)),
       Query(":ACQuire:MDEPth?") >>

set_memory_depth_body(memory_depth) ==
    << Write(":ACQuire:MDEPth " \o StrInt(memory_depth)) >>

set_memory_depth(memory_depth, failAt) ==
    /\ phase = "ready"
    /\ Invoke("set_memory_depth", [memory_depth |-> memory_depth],
              set_memory_depth_body(memory_depth), failAt, << >>, NoneValue)

get_memory_depth_body == << Query(":ACQuire:MDEPth?") >>

\* A variant that keeps the depth it read and returns it again without asking.
get_memory_depth_cached(failAt, reply) ==
    /\ phase = "ready"
    /\ IF method = "get_memory_depth" /\ raised = "none"
       THEN /\ failAt = 0
            /\ Invoke("get_memory_depth", << >>, << >>, 0, reply, result)
       ELSE Invoke("get_memory_depth", << >>,
                   get_memory_depth_body, failAt, reply, StrValue(reply))

get_memory_depth(failAt, reply) ==
    /\ phase = "ready"
    /\ Invoke("get_memory_depth", << >>,
              get_memory_depth_body, failAt, reply, StrValue(reply))

\* A variant that asks for the data before it has set the format.
acquire_waveform_body_query_early(channel, mode, points) ==
    << Write(":WAV:SOUR CHAN" \o StrInt(channel)),
       Write(":WAV:MODE " \o StrStr(mode)),
       Write(":WAV:POIN " \o StrInt(points)),
       Query(":WAV:DATA?"),
       Write(":WAV:FORM ASC") >>

acquire_waveform_body(channel, mode, points) ==
    << Write(":WAV:SOUR CHAN" \o StrInt(channel)),
       Write(":WAV:MODE " \o StrStr(mode)),
       Write(":WAV:POIN " \o StrInt(points)),
       Write(":WAV:FORM ASC"),
       Query(":WAV:DATA?") >>

acquire_waveform(channel, mode, points, failAt, reply) ==
    /\ phase = "ready"
    /\ Invoke("acquire_waveform", [channel |-> channel, mode |-> mode, points |-> points],
              acquire_waveform_body(channel, mode, points),
           failAt, reply, StrValue(reply))

get_trigger_status_body == << Query(":TRIG:STAT?") >>

get_trigger_status(failAt, reply) ==
    /\ phase = "ready"
    /\ Invoke("get_trigger_status", << >>,
              get_trigger_status_body, failAt, reply,
           StrValue(strip(reply)))

\* A variant that closes the handle only while its session is open.
close_body_once == IF Truthy(osci) /\ sessionOpen THEN << Close >> ELSE << >>

close_body == IF Truthy(osci) THEN << Close >> ELSE << >>

close(failAt) ==
    /\ phase = "ready"
    /\ failAt \in FailPoints(close_body)
    /\ Invoke("close", << >>,
              close_body, failAt, << >>, NoneValue)

set_time_scale_body(time_scale) ==
    << Write(":TIMebase:MAIN:SCALe " \o StrFloat(time_scale)) >>

set_time_scale(time_scale, failAt) ==
    /\ phase = "ready"
    /\ Invoke("set_time_scale", [time_scale |-> time_scale],
              set_time_scale_body(time_scale), failAt, << >>, NoneValue)

set_time_offset_body(time_offset) ==
    << Write(":TIMebase:MAIN:OFFSet " \o StrFloat(time_offset)) >>

set_time_offset(time_offset, failAt) ==
    /\ phase = "ready"
    /\ Invoke("set_time_offset", [time_offset |-> time_offset],
              set_time_offset_body(time_offset), failAt, << >>, NoneValue)

Next ==
    \/ \E ip \in IpAddresses : \E f \in init_fail_points(ip) : \E r \in RepliesWhen(f) :
          __init__(ip, f, r)
    \/ \E c \in Channels, s \in Floats, k \in Couplings :
          \E f \in FailPoints(configure_channel_body(c, s, k)) :
             configure_channel(c, s, k, f)
    \/ \E c \in Channels, l \in Floats, m \in TriggerModes :
          \E f \in FailPoints(setup_trigger_body(c, l, m)) :
             setup_trigger(c, l, m, f)
    \/ \E f \in FailPoints(get_time_step_body) : \E r \in RepliesWhen(f) :
          get_time_step(f, r)
    \/ \E d \in PointCounts : \E f \in FailPoints(set_memory_depth_body(d)) :
          set_memory_depth(d, f)
    \/ \E f \in FailPoints(get_memory_depth_body) : \E r \in RepliesWhen(f) :
          get_memory_depth(f, r)
    \/ \E c \in Channels, m \in WaveformModes, p \in PointCounts :
          \E f \in FailPoints(acquire_waveform_body(c, m, p)) : \E r \in RepliesWhen(f) :
             acquire_waveform(c, m, p, f, r)
    \/ \E f \in FailPoints(get_trigger_status_body) : \E r \in RepliesWhen(f) :
          get_trigger_status(f, r)
    \/ \E f \in FailPoints(<< Close >>) : close(f)
    \/ \E t \in Floats : \E f \in FailPoints(set_time_scale_body(t)) :
          set_time_scale(t, f)
    \/ \E t \in Floats : \E f \in FailPoints(set_time_offset_body(t)) :
          set_time_offset(t, f)

Spec == Init /\ [][Next]_vars

----------------------------------------------------------------------------
(* Properties.  They are stated on what an invocation left behind: the    *)
(* method and its arguments, the calls it made on the library (io), what  *)
(* it raised and what it returned.                                        *)

PublicMethods ==
    {"configure_channel", "setup_trigger", "get_time_step", "set_memory_depth",
     "get_memory_depth", "acquire_waveform", "get_trigger_status", "set_time_scale",
     "set_time_offset"}

\* The texts the commands are expected to carry for the values passed,
\* written out.
Numeral(n) ==
    CASE n = 1 -> "1" [] n = 2 -> "2" [] n = 3 -> "3" [] n = 4 -> "4"
      [] n = 600 -> "600" [] n = 1200 -> "1200"

Decimal(v) ==
    CASE v = [neg |-> FALSE, whole |-> 0, tenths |-> 5] -> "0.5"
      [] v = [neg |-> TRUE,  whole |-> 1, tenths |-> 0] -> "-1.0"

\* The commands of the calls made, and the kinds of the calls made.
Sent == [i \in 1..Len(io) |-> io[i].arg]
Ops == [i \in 1..Len(io) |-> io[i].op]

\* The library raised in no call of the last invocation.
Completed == \A i \in 1..Len(io) : io[i].ok

IsPrefix(s, t) == Len(s) <= Len(t) /\ s = SubSeq(t, 1, Len(s))

\* C1, as stated: every public method makes exactly one command per call (a
\* single write, or for a query a single write and read).
C1_OneCommandPerCall ==
    (method \in PublicMethods /\ Completed) => Len(io) = 1

\* C1, amended: every public method makes a fixed number of calls per
\* invocation: set_memory_depth, set_time_scale and set_time_offset one
\* write; get_time_step, get_memory_depth and get_trigger_status one query;
\* configure_channel three writes; setup_trigger three writes;
\* acquire_waveform four writes and then one query.  No method reads more
\* than once per call, and a call that raises makes no more calls than that.
C1_FixedCommandsPerCall ==
    LET expected ==
            CASE method \in {"set_memory_depth", "set_time_scale", "set_time_offset"}
                    -> << "write" >>
              [] method \in {"get_time_step", "get_memory_depth", "get_trigger_status"}
                    -> << "query" >>
              [] method \in {"configure_channel", "setup_trigger"}
                    -> << "write", "write", "write" >>
              [] method = "acquire_waveform"
                    -> << "write", "write", "write", "write", "query" >>
    IN  method \in PublicMethods =>
            /\ IsPrefix(Ops, expected)
            /\ Completed => Ops = expected
            /\ Cardinality({i \in 1..Len(io) : io[i].op = "query"}) <= 1

C1_Witness ==
    /\ method = "acquire_waveform"
    /\ Completed
    /\ Len(io) = 5

\* C2: configure_channel(n, v, c) sends ':CHANnel{n}:SCALe {v}' and then
\* ':CHANnel{n}:COUPling {c}', every command it sends is addressed to
\* channel n, and it reads nothing.
C2_ConfigureChannel ==
    method = "configure_channel" =>
        LET scale == ":CHANnel" \o Numeral(args.channel) \o ":SCALe " \o Decimal(args.scale)
            coupling == ":CHANnel" \o Numeral(args.channel) \o ":COUPling " \o args.coupling
            address == ":CHANnel" \o Numeral(args.channel) \o ":"
        IN  /\ Completed =>
                \E i, j \in 1..Len(io) : i < j /\ Sent[i] = scale /\ Sent[j] = coupling
            /\ \A j \in 1..Len(io) : Sent[j] = coupling => \E i \in 1..(j - 1) : Sent[i] = scale
            /\ \A i \in 1..Len(io) :
                  /\ io[i].op = "write"
                  /\ Len(Sent[i]) > Len(address)
                  /\ \E rest \in {"DISPlay ON", "SCALe " \o Decimal(args.scale),
                                  "COUPling " \o args.coupling} :
                        Sent[i] = address \o rest
            /\ args = [channel |-> 1, scale |-> [neg |-> FALSE, whole |-> 0, tenths |-> 5],
                       coupling |-> "DC"] /\ Completed
                  => /\ Sent[2] = ":CHANnel1:SCALe 0.5"
                     /\ Sent[3] = ":CHANnel1:COUPling DC"

C2_Witness ==
    /\ method = "configure_channel"
    /\ args = [channel |-> 1, scale |-> [neg |-> FALSE, whole |-> 0, tenths |-> 5],
               coupling |-> "DC"]
    /\ Completed
    /\ Len(io) = 3

\* C3: when the library raises in a call, the exception reaches the caller
\* as the library raised it, the call is not made again, and the calls that
\* follow it in the method are not made.
C3_FailurePropagates ==
    method \in PublicMethods \cup {"close"} =>
        /\ ~Completed <=> raised = "VisaIOError"
        /\ \A i \in 1..Len(io) : ~io[i].ok => i = Len(io)
        /\ ~Completed => result = NoneValue

C3_Witness ==
    /\ method = "acquire_waveform"
    /\ Len(io) = 2
    /\ ~io[2].ok
    /\ raised = "VisaIOError"

\* C4: acquire_waveform(channel, mode, points) sends ':WAV:SOUR
\* CHAN{channel}', ':WAV:MODE {mode}', ':WAV:POIN {points}', ':WAV:FORM ASC'
\* in that order, then the query ':WAV:DATA?' once, and returns the reply to
\* it unchanged.
C4_AcquireWaveform ==
    method = "acquire_waveform" =>
        LET expected == << ":WAV:SOUR CHAN" \o Numeral(args.channel),
                           ":WAV:MODE " \o args.mode,
                           ":WAV:POIN " \o Numeral(args.points),
                           ":WAV:FORM ASC",
                           ":WAV:DATA?" >>
        IN  /\ IsPrefix(Sent, expected)
            /\ \A i \in 1..Len(io) : io[i].op = IF i = 5 THEN "query" ELSE "write"
            /\ Completed =>
                  /\ Sent = expected
                  /\ raised = "none"
                  /\ result = [type |-> "str", str |-> io[5].data, num |-> 0, den |-> 1]

C4_Witness ==
    /\ method = "acquire_waveform"
    /\ Completed
    /\ io[5].data = << " ", "5" >>
    /\ result.str = << " ", "5" >>

\* C5: setup_trigger(n, l, m) sends exactly ':TRIG:EDGE:SOURce CHAN{n}',
\* ':TRIG:EDGE:LEV {l}' and ':TRIG:SWE {m}', in that order, with no read and
\* nothing in between.
C5_SetupTrigger ==
    method = "setup_trigger" =>
        LET expected == << ":TRIG:EDGE:SOURce CHAN" \o Numeral(args.source),
                           ":TRIG:EDGE:LEV " \o Decimal(args.level),
                           ":TRIG:SWE " \o args.mode >>
        IN  /\ IsPrefix(Sent, expected)
            /\ \A i \in 1..Len(io) : io[i].op = "write"
            /\ Completed => Sent = expected /\ raised = "none" /\ result = NoneValue

C5_Witness ==
    /\ method = "setup_trigger"
    /\ Completed
    /\ Sent = << ":TRIG:EDGE:SOURce CHAN2", ":TRIG:EDGE:LEV -1.0", ":TRIG:SWE SINGLE" >>

\* C6: timeout = 2000 and both terminators = '\n' are assigned once, in
\* __init__, before its '*IDN?' query; once __init__ has returned, no method
\* changes them, nor self.osci, nor self.rm.
C6_SettingsFixed ==
    LET names == {"timeout", "read_termination", "write_termination"}
        sets(n) == {i \in 1..Len(io) : io[i].op = "setattr" /\ io[i].arg = n}
    IN  /\ method = "__init__" =>
              /\ \A n \in names : Cardinality(sets(n)) <= 1
              /\ \A q \in 1..Len(io) : io[q].op = "query" =>
                    /\ \A n \in names : \E i \in sets(n) : i < q /\ io[i].ok
                    /\ \A i \in 1..(q - 1) : io[i].op \notin {"query", "write"}
                    /\ attrs = [timeout |-> 2000, read_termination |-> "\n",
                                write_termination |-> "\n"]
        /\ phase = "ready" =>
              /\ attrs = [timeout |-> 2000, read_termination |-> "\n",
                          write_termination |-> "\n"]
              /\ osci = "TCPIP::192.168.1.10::INSTR"
              /\ rm = "ResourceManager('@py')"
        /\ method \notin {"", "__init__"} =>
              \A i \in 1..Len(io) : io[i].op \in {"write", "query", "close"}

C6_Witness ==
    /\ phase = "ready"
    /\ method = "set_time_scale"
    /\ Completed
    /\ ~sessionOpen
    /\ attrs.timeout = 2000

\* What float() gives for the replies of at most three characters that it
\* accepts, as <<reply, numerator, denominator>>; it rejects the others.
FloatTable ==
    { << <<"5">>, 5, 1 >>,
      << <<" ", "5">>, 5, 1 >>,
      << <<"5", " ">>, 5, 1 >>,
      << <<"5", "5">>, 55, 1 >>,
      << <<"5", ".">>, 5, 1 >>,
      << <<".", "5">>, 1, 2 >>,
      << <<" ", " ", "5">>, 5, 1 >>,
      << <<" ", "5", " ">>, 5, 1 >>,
      << <<" ", "5", "5">>, 55, 1 >>,
      << <<" ", "5", ".">>, 5, 1 >>,
      << <<" ", ".", "5">>, 1, 2 >>,
      << <<"5", " ", " ">>, 5, 1 >>,
      << <<"5", "5", " ">>, 55, 1 >>,
      << <<"5", "5", "5">>, 555, 1 >>,
      << <<"5", "5", ".">>, 55, 1 >>,
      << <<"5", ".", " ">>, 5, 1 >>,
      << <<"5", ".", "5">>, 11, 2 >>,
      << <<".", "5", " ">>, 1, 2 >>,
      << <<".", "5", "5">>, 11, 20 >> }

\* r is d without the white space at its two ends.
Trimmed(d, r) ==
    \E i \in 0..Len(d) : \E j \in i..Len(d) :
        /\ r = SubSeq(d, i + 1, j)
        /\ \A k \in 1..i : d[k] \in {" ", "\t", "\n", "\r"}
        /\ \A k \in (j + 1)..Len(d) : d[k] \in {" ", "\t", "\n", "\r"}
        /\ r # << >> => r[1] \notin {" ", "\t", "\n", "\r"}
                        /\ r[Len(r)] \notin {" ", "\t", "\n", "\r"}

\* C7: every call of get_time_step, get_memory_depth and get_trigger_status
\* sends its own query (':WAV:XINC?', ':ACQuire:MDEPth?', ':TRIG:STAT?'), so
\* k calls in a row make k queries, and what it returns is computed from the
\* reply to that query.
C7_NoCaching ==
    LET query == [get_time_step      |-> ":WAV:XINC?",
                  get_memory_depth   |-> ":ACQuire:MDEPth?",
                  get_trigger_status |-> ":TRIG:STAT?"]
    IN  method \in DOMAIN query =>
            /\ Len(io) = 1
            /\ io[1].op = "query"
            /\ io[1].arg = query[method]
            /\ calls >= 1
            /\ wire = calls
            /\ ~Completed => result = NoneValue
            /\ Completed /\ method = "get_memory_depth" =>
                  result = [type |-> "str", str |-> io[1].data, num |-> 0, den |-> 1]
            /\ Completed /\ method = "get_trigger_status" =>
                  /\ result.type = "str"
                  /\ Trimmed(io[1].data, result.str)
            /\ Completed /\ method = "get_time_step" /\ Len(io[1].data) <= 3 =>
                  IF \E e \in FloatTable : e[1] = io[1].data
                  THEN LET e == CHOOSE e \in FloatTable : e[1] = io[1].data
                       IN  /\ raised = "none"
                           /\ result = [type |-> "float", str |-> << >>,
                                        num |-> e[2], den |-> e[3]]
                  ELSE raised = "ValueError"

C7_Witness ==
    /\ method = "get_memory_depth"
    /\ calls = 2
    /\ wire = 2
    /\ Completed
    /\ result.str = << "5", " " >>

\* C8: get_trigger_status returns the reply without the white space at its
\* ends (stripping the result again changes nothing); get_memory_depth and
\* acquire_waveform return the reply as received.
C8_StripOnlyTriggerStatus ==
    /\ method = "get_trigger_status" /\ raised = "none" =>
          /\ Trimmed(io[1].data, result.str)
          /\ strip(result.str) = result.str
    /\ method \in {"get_memory_depth", "acquire_waveform"} /\ raised = "none" =>
          result.str = io[Len(io)].data

C8_Witness ==
    /\ method = "get_trigger_status"
    /\ raised = "none"
    /\ io[1].data = << " ", "5" >>
    /\ result.str = << "5" >>

\* C9: close() calls the handle's close once per invocation, and keeps
\* self.osci and self.rm as they are; so a second close() calls it again,
\* and after close() the other methods still pass their commands on to the
\* handle.
C9_NoClosedState ==
    /\ method = "close" =>
          /\ Len(io) = 1
          /\ io[1].op = "close"
          /\ wire = calls
    /\ phase = "ready" =>
          /\ osci = "TCPIP::192.168.1.10::INSTR"
          /\ rm = "ResourceManager('@py')"
          /\ calls < MaxCalls =>
                /\ ENABLED (\E f \in 0..1 : close(f))
                /\ ENABLED (\E f \in 0..1 : \E r \in {<< >>} : get_trigger_status(f, r))
    /\ method \in PublicMethods =>
          /\ io # << >>
          /\ \A i \in 1..Len(io) : io[i].op \in {"write", "query"}
          /\ raised \in {"none", "VisaIOError", "ValueError"}

C9_Witness ==
    /\ method = "close"
    /\ calls = 2
    /\ wire = 2
    /\ ~sessionOpen

\* C10: when the '*IDN?' query of __init__ raises, the exception leaves the
\* constructor, the handle opened before is not closed, and there is no
\* object to close it through.
C10_FailedConstructionLeaksHandle ==
    (method = "__init__" /\ ~Completed) =>
        /\ phase = "failed"
        /\ raised = "VisaIOError"
        /\ \A i \in 1..Len(io) : io[i].op # "close"
        /\ (Len(io) >= 2 /\ io[2].ok) => sessionOpen
        /\ ~ENABLED Next

C10_Witness ==
    /\ method = "__init__"
    /\ Len(io) = 6
    /\ io[6].arg = "*IDN?"
    /\ ~io[6].ok
    /\ raised = "VisaIOError"
    /\ sessionOpen

====
